---- MODULE Spec2Model ----
(***************************************************************************)
(* A model of vis/imshows.py: cshow, _factors, rshow, nshow and sshow.     *)
(*                                                                         *)
(* Arrays are numpy arrays.  A basic index im[mid] of a C-contiguous array *)
(* is a view of the same buffer: a shape, an offset into the buffer and    *)
(* the buffer itself.  Buffers are named; BufVal gives the element stored  *)
(* at a flat position of a named buffer.  Indices count from 0 as in       *)
(* Python; a shape is a sequence of axis sizes.                            *)
(*                                                                         *)
(* The module is Python 2 code (filter returns a list, n/2 on ints is      *)
(* floor division, see the doctests of _factors); it is modelled so.       *)
(* The renderer (matplotlib) is external: a call to it is recorded in      *)
(* `out` with the arguments it received.                                   *)
(***************************************************************************)
EXTENDS Integers, Sequences, FiniteSets, TLC

VARIABLES pc, entry, arg, im, path, n, fs, labrandom, out, prev, round

vars == <<pc, entry, arg, im, path, n, fs, labrandom, out, prev, round>>

(***************************************************************************)
(* Bounds of the model.                                                    *)
(***************************************************************************)
\* intensity arrays given to cshow: 1..MaxNdim axes of 1..MaxAxis elements
MaxNdim == 4
MaxAxis == 3
\* label arrays given to sshow: 1..3 axes of 1..MaxLabelAxis elements
MaxLabelAxis == 2
\* vectors given to rshow: 0..MaxLen elements
MaxLen == 20
\* multichannel arrays given to nshow: axes of 1..MaxChanAxis elements
MaxChanAxis == 2

(***************************************************************************)
(* The shapes of the docstring of cshow (lines 27-29).                     *)
(***************************************************************************)
DocLead3 == 7
DocSide3 == 512
DocLead4 == 4
DocSide4 == 50

(***************************************************************************)
(* Numbers.  A float that need not be an integer is a fraction num/den,    *)
(* den > 0; den = 0 is the result of a float division by zero (numpy       *)
(* gives nan or inf and a warning, never an exception).                    *)
(***************************************************************************)
Frac(a, b) == [num |-> a, den |-> b]

FracLe(x, y) == x.num * y.den <= y.num * x.den

FracEq(x, y) == x.num * y.den = y.num * x.den

\* np.ceil of a fraction with den > 0
Ceil(x) == -((-x.num) \div x.den)

RECURSIVE Prod(_)
Prod(s) == IF s = <<>> THEN 1 ELSE Head(s) * Prod(Tail(s))

RECURSIVE Drop(_, _)
Drop(s, k) == IF k = 0 \/ s = <<>> THEN s ELSE Drop(Tail(s), k - 1)

(***************************************************************************)
(* numpy arrays                                                            *)
(***************************************************************************)
\* the element a named buffer holds at flat position k
BufVal(buf, k) ==
    CASE buf = "ramp"   -> k
      [] buf = "mix"    -> ((k % 7) * (k % 7) + (k % 5)) % 6
      [] buf = "range"  -> IF k % 2 = 0 THEN 10 + 5 * ((k \div 2) % 3) ELSE 5
      [] buf = "ints"   -> Frac(k % 2, 1)
      [] buf = "halves" -> Frac((k * 3) % 5, 2)
      [] buf = "zeros"  -> Frac(0, 1)

View(shape, off, buf) == [shape |-> shape, off |-> off, buf |-> buf]

NoView == View(<<>>, 0, "none")

Ndim(a) == Len(a.shape)

Size(a) == Prod(a.shape)

\* the stride, in elements, of axis ax of a C-contiguous shape
Stride(shape, ax) == Prod(Drop(shape, ax))

RECURSIVE FlatFrom(_, _, _)
FlatFrom(shape, idx, ax) ==
    IF ax > Len(idx) THEN 0
    ELSE idx[ax] * Stride(shape, ax) + FlatFrom(shape, idx, ax + 1)

\* a[idx] for a full index tuple idx
Elem(a, idx) == BufVal(a.buf, a.off + FlatFrom(a.shape, idx, 1))

\* the index tuples of a shape
RECURSIVE Indices(_)
Indices(shape) ==
    IF shape = <<>> THEN {<<>>}
    ELSE {<<i>> \o r : i \in 0..(Head(shape) - 1), r \in Indices(Tail(shape))}

\* a[m]: the view of the m-th cross-section along axis 0
Take0(a, m) == View(Tail(a.shape), a.off + m * Stride(a.shape, 1), a.buf)

\* a.reshape((-1, f)) of a 1D C-contiguous array: the missing size is
\* inferred as size / f; numpy raises ValueError when f does not divide it
ReshapeOk(a, f) == f > 0 /\ Size(a) % f = 0

Reshape(a, f) == View(<<Size(a) \div f, f>>, a.off, a.buf)

\* all shapes of nd axes, each of 1..mx elements
Shapes(nd, mx) == [1..nd -> 1..mx]

(***************************************************************************)
(* The renderer: the last call made to pyplot, with its arguments.         *)
(***************************************************************************)
NoCall ==
    [call |-> "none", im |-> NoView, pixels |-> <<>>, cmap |-> "none",
     table |-> <<>>, interpolation |-> "none"]

\* plt.imshow(a, cmap=cm.cubehelix, interpolation='nearest')
ImshowCubehelix(a) ==
    [call |-> "imshow", im |-> a, pixels |-> <<>>, cmap |-> "cubehelix",
     table |-> <<>>, interpolation |-> "nearest"]

\* plt.imshow(a, cmap=ListedColormap(table), interpolation='nearest')
ImshowListed(a, table) ==
    [call |-> "imshow", im |-> a, pixels |-> <<>>, cmap |-> "listed",
     table |-> table, interpolation |-> "nearest"]

\* plt.imshow(im_out)
ImshowPixels(a, px) ==
    [call |-> "imshow", im |-> a, pixels |-> px, cmap |-> "default",
     table |-> <<>>, interpolation |-> "default"]

\* plt.plot(values)
Plot(values) ==
    [call |-> "plot", im |-> values, pixels |-> <<>>, cmap |-> "none",
     table |-> <<>>, interpolation |-> "none"]

(***************************************************************************)
(* cshow                                                                   *)
(***************************************************************************)
\* a slip: if im.ndim > 1
MoreThan1D(a) == Ndim(a) > 1

\* if im.ndim > 2
MoreThan2D(a) == Ndim(a) > 2

\* a slip: mid = (im.shape[0] - 1) // 2
MidBelow(a) == (a.shape[1] - 1) \div 2

\* mid = im.shape[0] // 2
Mid(a) == a.shape[1] \div 2

IntensityArrays ==
    {View(s, 0, b) : s \in UNION {Shapes(nd, MaxAxis) : nd \in 1..MaxNdim},
                     b \in {"ramp", "mix"}}
    \cup {View(s, 0, b) : s \in {<<DocLead3, DocSide3, DocSide3>>,
                                 <<DocLead4, DocSide4, DocSide4, DocSide4>>},
                          b \in {"ramp", "mix"}}

\* a call cshow(a) from the top level
Cshow(a) ==
    /\ pc = "idle"
    /\ pc' = "cshow"
    /\ entry' = "cshow"
    /\ arg' = a
    /\ im' = a
    /\ path' = <<>>
    /\ round' = 1
    /\ UNCHANGED <<n, fs, labrandom, out, prev>>

\* a second call of the same entry point on the array it has just displayed
Again ==
    /\ pc = "done"
    /\ round = 1
    /\ entry \in {"cshow", "sshow"}
    /\ out.call = "imshow"
    /\ pc' = entry
    /\ arg' = out.im
    /\ im' = out.im
    /\ prev' = out.im
    /\ path' = <<>>
    /\ round' = 2
    /\ out' = NoCall
    /\ UNCHANGED <<entry, n, fs, labrandom>>

\* the recursive call cshow(im[mid])
CshowSlice ==
    /\ pc = "cshow"
    /\ MoreThan2D(im)
    /\ im' = Take0(im, Mid(im))
    /\ path' = Append(path, Mid(im))
    /\ UNCHANGED <<pc, entry, arg, n, fs, labrandom, out, prev, round>>

\* the else branch: the call of the renderer
CshowRender ==
    /\ pc = "cshow"
    /\ ~MoreThan2D(im)
    /\ out' = ImshowCubehelix(im)
    /\ pc' = "done"
    /\ UNCHANGED <<entry, arg, im, path, n, fs, labrandom, prev, round>>

(***************************************************************************)
(* _factors and rshow                                                      *)
(***************************************************************************)
\* range(a, b)
Range(a, b) == [i \in 1..(IF b > a THEN b - a ELSE 0) |-> a + i - 1]

\* a slip: range(2, n/2), which leaves n/2 out
FactorsShort(nn) == SelectSeq(Range(2, nn \div 2), LAMBDA i : nn % i = 0)

\* a slip: range(3, 1 + n/2), which leaves 2 out
FactorsFrom3(nn) == SelectSeq(Range(3, 1 + nn \div 2), LAMBDA i : nn % i = 0)

\* filter(lambda i: (n % i == 0), range(2, 1 + n/2))
Factors(nn) == SelectSeq(Range(2, 1 + nn \div 2), LAMBDA i : nn % i = 0)

\* a slip: fs[(k - 1) // 2]
MiddleFactorBelow(f) == f[((Len(f) - 1) \div 2) + 1]

\* fs[k // 2], k = len(fs)
MiddleFactor(f) == f[(Len(f) \div 2) + 1]

Vectors ==
    {View(<<len>>, 0, b) : len \in 0..MaxLen, b \in {"ramp", "mix"}}

\* a call rshow(values): up to the plot call or the call of cshow
Rshow(values) ==
    /\ pc = "idle"
    /\ entry' = "rshow"
    /\ arg' = values
    /\ n' = values.shape[1]
    /\ fs' = Factors(values.shape[1])
    /\ path' = <<>>
    /\ round' = 1
    /\ IF Len(fs') = 0
       THEN /\ out' = Plot(values)
            /\ pc' = "done"
            /\ im' = NoView
       ELSE IF ReshapeOk(values, MiddleFactor(fs'))
       THEN /\ im' = Reshape(values, MiddleFactor(fs'))
            /\ pc' = "cshow"
            /\ out' = NoCall
       ELSE /\ pc' = "ValueError"
            /\ im' = NoView
            /\ out' = NoCall
    /\ UNCHANGED <<labrandom, prev>>

(***************************************************************************)
(* nshow                                                                   *)
(***************************************************************************)
\* an array held by value: its shape and its element at every index tuple
Array(shape, at) == [shape |-> shape, at |-> at]

ToArray(a) == Array(a.shape, [idx \in Indices(a.shape) |-> Elem(a, idx)])

SetMin(S) == CHOOSE x \in S : \A y \in S : x <= y

SetMax(S) == CHOOSE x \in S : \A y \in S : y <= x

\* A.min(axis=0)
MinAxis0(A) ==
    Array(Tail(A.shape),
          [idx \in Indices(Tail(A.shape)) |->
              SetMin({A.at[<<k>> \o idx] : k \in 0..(Head(A.shape) - 1)})])

\* A.max(axis=0)
MaxAxis0(A) ==
    Array(Tail(A.shape),
          [idx \in Indices(Tail(A.shape)) |->
              SetMax({A.at[<<k>> \o idx] : k \in 0..(Head(A.shape) - 1)})])

\* A[np.newaxis, np.newaxis, :]
NewAxes(A) ==
    Array(<<1, 1>> \o A.shape,
          [idx \in Indices(<<1, 1>> \o A.shape) |-> A.at[Drop(idx, 2)]])

\* the element of B that numpy's broadcasting pairs with index idx of an
\* array of the same number of axes: an axis of size 1 is repeated
Broadcast(B, idx) ==
    B.at[[ax \in 1..Len(idx) |-> IF B.shape[ax] = 1 THEN 0 ELSE idx[ax]]]

\* im.min(axis=0).min(axis=0)[np.newaxis, np.newaxis, :]
ChannelMins(A) == NewAxes(MinAxis0(MinAxis0(A)))

\* im.max(axis=0).max(axis=0)[np.newaxis, np.newaxis, :]
ChannelMaxs(A) == NewAxes(MaxAxis0(MaxAxis0(A)))

\* (im.astype(float) - channel_mins) / (channel_maxs - channel_mins)
Normalised(A) ==
    Array(A.shape,
          [idx \in Indices(A.shape) |->
              Frac(A.at[idx] - Broadcast(ChannelMins(A), idx),
                   Broadcast(ChannelMaxs(A), idx)
                       - Broadcast(ChannelMins(A), idx))])

\* images of 2 or 3 leading spatial axes and a last axis of channels
ChannelArrays ==
    {View(s, 0, b) : s \in UNION {Shapes(nd, MaxChanAxis) : nd \in 3..4},
                     b \in {"ramp", "mix", "range"}}

\* a call nshow(a)
Nshow(a) ==
    /\ pc = "idle"
    /\ entry' = "nshow"
    /\ arg' = a
    /\ out' = ImshowPixels(a, Normalised(ToArray(a)))
    /\ pc' = "done"
    /\ round' = 1
    /\ UNCHANGED <<im, path, n, fs, labrandom, prev>>

(***************************************************************************)
(* sshow                                                                   *)
(***************************************************************************)
\* im.max() of an array of fractions
MaxElem(a) ==
    LET S == {Elem(a, idx) : idx \in Indices(a.shape)}
    IN  CHOOSE x \in S : \A y \in S : FracLe(y, x)

\* the values np.random.rand may draw, all in [0, 1)
RandVals == {Frac(0, 1), Frac(1, 2)}

\* np.random.rand(m, 3)
RandTables(m) == [1..m -> [1..3 -> RandVals]]

\* the scaling of the three columns to L, a and b (lines 132-134)
ToLab(t) ==
    [r \in DOMAIN t |->
        <<Frac(t[r][1].num * 60 + 20 * t[r][1].den, t[r][1].den),
          Frac(t[r][2].num * 185 - 85 * t[r][2].den, t[r][2].den),
          Frac(t[r][3].num * 198 - 106 * t[r][3].den, t[r][3].den)>>]

\* the components color.lab2rgb may return: the conversion is skimage's,
\* and gives values below 0 and above 1 for Lab points out of the RGB gamut
RgbVals == {Frac(-1, 2), Frac(1, 2), Frac(3, 2)}

\* color.lab2rgb(lab[np.newaxis, ...])[0]: one RGB row for each Lab row
Lab2Rgb(lab) == [DOMAIN lab -> [1..3 -> RgbVals]]

\* a slip: only rand_colors[rand_colors < 0] = 0
ClipBelow(x) == IF x.num < 0 THEN Frac(0, 1) ELSE x

\* rand_colors[rand_colors < 0] = 0; rand_colors[rand_colors > 1] = 1
Clip(x) ==
    IF x.num < 0 THEN Frac(0, 1)
    ELSE IF x.num > x.den THEN Frac(1, 1)
    ELSE x

ClipTable(t) == [r \in DOMAIN t |-> [c \in 1..3 |-> Clip(t[r][c])]]

\* np.zeros((1, 3))
Black == <<Frac(0, 1), Frac(0, 1), Frac(0, 1)>>

\* np.concatenate((np.zeros((1, 3)), rand_colors))
ListedColors(t) == <<Black>> \o t

\* the number of random colours drawn: np.ceil(im.max())
NumColors(a) == Ceil(MaxElem(a))

LabelArrays ==
    {View(s, 0, b) : s \in UNION {Shapes(nd, MaxLabelAxis) : nd \in 1..3},
                     b \in {"ints", "halves", "zeros"}}

\* a call sshow(a, lr) from the top level
Sshow(a, lr) ==
    /\ pc = "idle"
    /\ pc' = "sshow"
    /\ entry' = "sshow"
    /\ arg' = a
    /\ im' = a
    /\ labrandom' = lr
    /\ path' = <<>>
    /\ round' = 1
    /\ UNCHANGED <<n, fs, out, prev>>

\* the recursive call sshow(im[mid], labrandom)
SshowSlice ==
    /\ pc = "sshow"
    /\ MoreThan2D(im)
    /\ im' = Take0(im, Mid(im))
    /\ path' = Append(path, Mid(im))
    /\ UNCHANGED <<pc, entry, arg, n, fs, labrandom, out, prev, round>>

\* the else branch: the colour table and the call of the renderer
SshowRender ==
    /\ pc = "sshow"
    /\ ~MoreThan2D(im)
    /\ \E rand \in RandTables(NumColors(im)) :
         \E rand_colors \in (IF labrandom
                             THEN {ClipTable(t) : t \in Lab2Rgb(ToLab(rand))}
                             ELSE {rand}) :
            out' = ImshowListed(im, ListedColors(rand_colors))
    /\ pc' = "done"
    /\ UNCHANGED <<entry, arg, im, path, n, fs, labrandom, prev, round>>

Init ==
    /\ pc = "idle"
    /\ entry = "none"
    /\ arg = NoView
    /\ im = NoView
    /\ path = <<>>
    /\ n = 0
    /\ fs = <<>>
    /\ labrandom = FALSE
    /\ out = NoCall
    /\ prev = NoView
    /\ round = 0

Next ==
    \/ \E a \in IntensityArrays : Cshow(a)
    \/ Again
    \/ CshowSlice
    \/ CshowRender
    \/ \E v \in Vectors : Rshow(v)
    \/ \E a \in ChannelArrays : Nshow(a)
    \/ \E a \in LabelArrays, lr \in BOOLEAN : Sshow(a, lr)
    \/ SshowSlice
    \/ SshowRender

Spec == Init /\ [][Next]_vars

(***************************************************************************)
(* Properties                                                              *)
(***************************************************************************)
Rendered == pc = "done" /\ out.call = "imshow"

Reducing == entry \in {"cshow", "sshow"}

\* s0 // 2, s1 // 2, ..., s(ndim-3) // 2
MiddleIndices(shape) == [i \in 1..(Len(shape) - 2) |-> shape[i] \div 2]

\* C1: for an array of more than 2 axes, cshow and sshow hand the renderer
\* exactly the cross-section im[s0 // 2, ..., s(ndim-3) // 2]: the indices
\* taken are the halves (rounded down) of the leading axes' sizes, whatever
\* the values; shape (7, 512, 512) takes index 3 and shape (4, 50, 50, 50)
\* takes index 2 and then index 25.
C1_MiddleCrossSection ==
    (Rendered /\ Reducing /\ round = 1 /\ Ndim(arg) > 2) =>
        /\ path = MiddleIndices(arg.shape)
        /\ out.im.shape = Drop(arg.shape, Ndim(arg) - 2)
        /\ \A i \in 0..(out.im.shape[1] - 1), j \in 0..(out.im.shape[2] - 1) :
              Elem(out.im, <<i, j>>) = Elem(arg, path \o <<i, j>>)
        /\ (arg.shape = <<DocLead3, DocSide3, DocSide3>>) => path = <<3>>
        /\ (arg.shape = <<DocLead4, DocSide4, DocSide4, DocSide4>>)
              => path = <<2, 25>>

C1_Witness ==
    /\ Rendered
    /\ entry = "cshow"
    /\ arg.shape = <<DocLead4, DocSide4, DocSide4, DocSide4>>
    /\ path = <<2, 25>>
    /\ out.im.shape = <<DocSide4, DocSide4>>

\* C2 (safety part): what the reduction hands the renderer for an array of
\* 2 or more axes has 2 axes; a 2D array is handed over as it is, with no
\* cross-section taken; reducing the result again gives the result.
C2_Safety ==
    /\ (Rendered /\ Reducing /\ Ndim(arg) >= 2) => Ndim(out.im) = 2
    /\ (Rendered /\ Reducing /\ Ndim(arg) = 2) => (out.im = arg /\ path = <<>>)
    /\ (Rendered /\ Reducing /\ round = 2) => (out.im = prev /\ path = <<>>)

\* a call of cshow/sshow on an array of 2 or more axes that has not returned
InReduction == pc \in {"cshow", "sshow"} /\ Reducing /\ Ndim(arg) >= 2

\* the step a frame of cshow or sshow takes
ReductionStep == CshowSlice \/ CshowRender \/ SshowSlice \/ SshowRender

\* C2: for every array of 2 or more axes the reduction of cshow/sshow ends,
\* and it ends with a 2D array handed to the renderer; reducing that result
\* again returns it unchanged, and a 2D input is passed through unchanged.
\* Termination: a call that has not returned can always take a step, and a
\* step either hands a 2D array to the renderer and returns, or takes one
\* cross-section of an array of more than 2 axes, leaving one axis fewer.
C2_ReductionEndsIn2D ==
    /\ []C2_Safety
    /\ [](InReduction => ENABLED ReductionStep)
    /\ [][InReduction =>
            \/ /\ pc' = "done"
               /\ out'.call = "imshow"
               /\ Ndim(im) = 2
               /\ out'.im = im
            \/ /\ pc' = pc
               /\ Ndim(im) > 2
               /\ Ndim(im') = Ndim(im) - 1]_vars

C2_Witness ==
    /\ Rendered
    /\ Reducing
    /\ round = 2
    /\ prev.off > 0
    /\ out.im = prev
    /\ Ndim(out.im) = 2

\* n has no divisor d with 1 < d < n
NoProperDivisor(k) == ~ \E d \in 2..(k - 1) : k % d = 0

\* C3: rshow on a vector whose length n >= 1 has no divisor strictly
\* between 1 and n plots the raw values and never reshapes them; on a vector
\* of composite length it never plots, and displays an image through cshow.
C3_PlotIffNoDivisor ==
    (entry = "rshow" /\ n >= 1) =>
        IF NoProperDivisor(n)
        THEN /\ pc = "done"
             /\ out.call = "plot"
             /\ out.im = arg
             /\ im = NoView
        ELSE /\ pc \in {"cshow", "done"}
             /\ out.call # "plot"
             /\ Ndim(im) = 2
             /\ pc = "done" => (out.call = "imshow" /\ out.cmap = "cubehelix")

C3_Witness ==
    /\ entry = "rshow"
    /\ n = 7
    /\ pc = "done"
    /\ out.call = "plot"
    /\ out.im = arg

\* C4: for a vector of composite length n, rshow takes the factor f at
\* (0-based) index len(fs) // 2 of fs and hands the renderer the values as
\* an array of shape (n / f, f) in row-major order, grid[i][j] being
\* values[i * f + j], each value appearing exactly once; n = 10 gives (2, 5).
C4_GridReshape ==
    (entry = "rshow" /\ Rendered) =>
        LET f == fs[(Len(fs) \div 2) + 1]
            rows == n \div f
        IN  /\ n % f = 0
            /\ out.im.shape = <<rows, f>>
            /\ \A i \in 0..(rows - 1), j \in 0..(f - 1) :
                  Elem(out.im, <<i, j>>) = Elem(arg, <<i * f + j>>)
            /\ {i * f + j : i \in 0..(rows - 1), j \in 0..(f - 1)} = 0..(n - 1)
            /\ Cardinality(Indices(out.im.shape)) = n
            /\ n = 10 => out.im.shape = <<2, 5>>

C4_Witness ==
    /\ entry = "rshow"
    /\ Rendered
    /\ n = 10
    /\ fs = <<2, 5>>
    /\ out.im.shape = <<2, 5>>

\* C5: for n >= 1, _factors(n) is exactly the divisors d of n with
\* 1 < d < n, each once, in ascending order (so empty for 1, 2, 3 and the
\* primes); _factors(10) = [2, 5] and _factors(20) = [2, 4, 5, 10].
C5_FactorsExact ==
    (entry = "rshow" /\ n >= 1) =>
        /\ \A i \in 1..(Len(fs) - 1) : fs[i] < fs[i + 1]
        /\ {fs[i] : i \in 1..Len(fs)} = {d \in 2..(n - 1) : n % d = 0}
        /\ NoProperDivisor(n) => fs = <<>>
        /\ n = 10 => fs = <<2, 5>>
        /\ n = 20 => fs = <<2, 4, 5, 10>>

C5_Witness ==
    /\ entry = "rshow"
    /\ n = 20
    /\ fs = <<2, 4, 5, 10>>

ChannelValues(a, c) ==
    {Elem(a, idx) : idx \in {x \in Indices(a.shape) : x[Len(x)] = c}}

\* C7: nshow, for any number (>= 2) of leading spatial axes, takes one
\* minimum and one maximum per channel over all the spatial axes and hands
\* the renderer (value - min) / (max - min): in a channel that is not
\* constant every output lies in [0, 1].
C7_PerChannelNormalised ==
    (entry = "nshow" /\ Rendered) =>
        \A idx \in Indices(arg.shape) :
            LET c  == idx[Len(idx)]
                lo == SetMin(ChannelValues(arg, c))
                hi == SetMax(ChannelValues(arg, c))
                px == out.pixels.at[idx]
            IN  lo < hi =>
                  /\ px.den # 0
                  /\ FracEq(px, Frac(Elem(arg, idx) - lo, hi - lo))
                  /\ FracLe(Frac(0, 1), px)
                  /\ FracLe(px, Frac(1, 1))

\* the statement of C7 for images of exactly 2 spatial axes
C7_TwoSpatialAxes ==
    (Ndim(arg) = 3) => C7_PerChannelNormalised

\* C8: when a channel's maximum equals its minimum, nshow never hands the
\* renderer the result of a division by zero.
C8_NoZeroDenominator ==
    (entry = "nshow" /\ Rendered) =>
        \A idx \in Indices(arg.shape) : out.pixels.at[idx].den # 0

\* C9: rshow on an empty vector fails with InvalidArgument and calls
\* neither the renderer nor plot.
C9_EmptyVectorRejected ==
    (entry = "rshow" /\ n < 1) =>
        /\ pc = "InvalidArgument"
        /\ out.call = "none"

\* C10: from cshow, sshow or rshow with an input of 1 or more axes, the
\* reducer never receives an array of fewer than 2 axes and never hands one
\* to the renderer.
C10_ReducerAtLeast2D ==
    /\ pc \in {"cshow", "sshow"} => Ndim(im) >= 2
    /\ (Rendered /\ entry \in {"cshow", "sshow", "rshow"}) => Ndim(out.im) >= 2

====
